---- MODULE Spec2Model ----
(***************************************************************************)
(* Debt negotiation and cancellation handlers of api-consulta-v2           *)
(* (src/src/main.py: gerar_boleto, cancelar_boleto) over the document      *)
(* store collections clientes, dividas, boletos and auditoria.             *)
(*                                                                         *)
(* Every database operation awaited by a handler is one step: the code     *)
(* between two awaits runs without interruption on the event loop, the     *)
(* handlers of different requests interleave at the awaits.  No handler    *)
(* opens a transaction, so a failure of a database operation ends the      *)
(* call with HTTP 500 and leaves the writes already made.                  *)
(*                                                                         *)
(* Next to the handlers: CancelarBoletoUseCase and GerarBoletoUseCase      *)
(* (src/src/application/use_cases/boleto) over the same boletos, with      *)
(* BuscarClienteUseCase and the cache they share; the Money and CPF value  *)
(* objects (src/src/domain/value_objects) and the Pagamento entity         *)
(* (src/src/domain/entities/pagamento.py).                                 *)
(*                                                                         *)
(* Amounts are whole cents.  Times are ticks of half a day.                *)
(* A worker whose pc is "idle" is free for a new request.                  *)
(***************************************************************************)
EXTENDS Integers, Sequences, FiniteSets, TLC

VARIABLES
    dividas,      \* collection dividas: id -> document
    boletos,      \* collection boletos: ObjectId -> document
    auditoria,    \* collection auditoria: sequence of records
    proc,         \* per worker: the request being handled and its locals
    now,          \* datetime.now(), in ticks
    next_oid,     \* next value ObjectId() returns
    resposta,     \* the response the last step sent, if it sent one
    escreveu,     \* per worker: has the request in hand written to the store
    money,        \* the Money objects a, b in hand and the last call on them
    validacao,    \* the CPF text in hand and what each validation said of it
    pagamento,    \* the Pagamento in hand and the last call on it
    cache         \* the keys the cache holds an entry for

vars == <<dividas, boletos, auditoria, proc, now, next_oid, resposta, escreveu,
          money, validacao, pagamento, cache>>

\* the collections with the workers on them, and the objects of the domain
loja == <<dividas, boletos, auditoria, proc, now, next_oid, resposta, escreveu>>
objetos == <<money, validacao, pagamento>>

\* ------------------------------------------------------------------ bounds
MaxBoletos == 2
MaxNow == 3
MaxDelta == 3
MaxLinhas == 2
MaxMils == 15
MaxMeios == 5
MaxObservacoes == 2

\* ------------------------------------------------------- program constants
MinParcelas == 1
MaxParcelas == 5
ParcelaMinima == 5000
LimiteVencido == 30
TicksPerDay == 2

Workers == {"w1", "w2"}

Nenhum == <<>>
Algum(x) == <<x>>

Range(s) == {s[k] : k \in 1..Len(s)}

\* ------------------------------------------------------------------- CPF
\* A CPF text is a sequence of characters: 0..9 are the ASCII digits, 10..19
\* the decimal digits of another script (ARABIC-INDIC DIGIT ONE is 11), any
\* other number is a character that is no digit.
DigitoAscii(c) == c \in 0..9
DigitoUnicode(c) == c \in 0..19

\* int(c) of one decimal digit of any script
int(c) == c % 10

\* the "." of a formatted CPF
Ponto == 20

\* sum(int(cpf[i]) * (peso - i) for i in range(n))
RECURSIVE SomaPonderada(_, _, _)
SomaPonderada(cpf, n, peso) ==
    IF n = 0 THEN 0
    ELSE int(cpf[n]) * (peso - (n - 1)) + SomaPonderada(cpf, n - 1, peso)

\* re.sub(r'[^\d]', '', cpf): in a str pattern \d is every decimal digit
normalize_cpf(texto) == SelectSeq(texto, DigitoUnicode)

validate_cpf(texto) ==
    LET cpf == normalize_cpf(texto)
    IN  IF Len(cpf) # 11 THEN FALSE
        ELSE IF \A k \in 1..11 : cpf[k] = cpf[1] THEN FALSE
        ELSE
            LET resto1 == 11 - (SomaPonderada(cpf, 9, 10) % 11)
                digito1 == IF resto1 >= 10 THEN 0 ELSE resto1
                resto2 == 11 - (SomaPonderada(cpf, 10, 11) % 11)
                digito2 == IF resto2 >= 10 THEN 0 ELSE resto2
            IN  int(cpf[10]) = digito1 /\ int(cpf[11]) = digito2

\* CPF._validar with the first check digit forced to 0 only when the sum is a
\* multiple of 11
CPF_validar_resto_zero(valor) ==
    LET cpf == SelectSeq(valor, DigitoAscii)
    IN  IF Len(cpf) # 11 THEN FALSE
        ELSE IF \A k \in 1..11 : cpf[k] = cpf[1] THEN FALSE
        ELSE
            LET resto1 == SomaPonderada(cpf, 9, 10) % 11
                digito1 == IF resto1 < 1 THEN 0 ELSE 11 - resto1
            IN  IF int(cpf[10]) # digito1 THEN FALSE
                ELSE
                    LET resto2 == SomaPonderada(cpf, 10, 11) % 11
                        digito2 == IF resto2 < 2 THEN 0 ELSE 11 - resto2
                    IN  int(cpf[11]) = digito2

\* CPF._validar: re.sub(r"[^0-9]", "", self.valor), then the two check digits
CPF_validar(valor) ==
    LET cpf == SelectSeq(valor, DigitoAscii)
    IN  IF Len(cpf) # 11 THEN FALSE
        ELSE IF \A k \in 1..11 : cpf[k] = cpf[1] THEN FALSE
        ELSE
            LET resto1 == SomaPonderada(cpf, 9, 10) % 11
                digito1 == IF resto1 < 2 THEN 0 ELSE 11 - resto1
            IN  IF int(cpf[10]) # digito1 THEN FALSE
                ELSE
                    LET resto2 == SomaPonderada(cpf, 10, 11) % 11
                        digito2 == IF resto2 < 2 THEN 0 ELSE 11 - resto2
                    IN  int(cpf[11]) = digito2

\* ------------------------------------------------------------ seed data
CpfC1 == <<1,0,7,9,9,1,1,8,3,9,7>>
CpfC2 == <<1,1,1,4,4,4,7,7,7,3,5>>
CpfSemCliente == <<5,2,9,9,8,2,2,4,7,2,5>>
CpfInvalido == <<1,2,3,4,5,6,7,8,9,0,1>>

\* collection clientes (never written by the handlers): cpf -> _id
clientes == [c \in {CpfC1, CpfC2} |-> IF c = CpfC1 THEN "c1" ELSE "c2"]

\* natural order of the collection dividas
OrdemDividas == <<"d1", "d2", "d3">>
IdsDividas == Range(OrdemDividas)

\* "d9" is a well-formed id of no document, "zz" is no ObjectId
ObjectIdValido(s) == s # "zz"

Pedido(cpf, ids, parcelas) ==
    [cliente_cpf |-> cpf, dividas_ids |-> ids, parcelas |-> parcelas]

\* requests of concurrent clients: debts of the customer, alone and together
PedidosConcorrentes ==
    {Pedido(CpfC1, <<"d1">>, 1), Pedido(CpfC1, <<"d1", "d2">>, 1)}

\* requests of one client: the former and one for every refusal
PedidosTodos ==
    PedidosConcorrentes \cup
    {Pedido(CpfC1, <<"d1">>, MinParcelas - 1),
     Pedido(CpfC1, <<"d1">>, MaxParcelas + 1),
     Pedido(CpfC1, <<>>, 1),
     Pedido(CpfInvalido, <<"d1">>, 1),
     Pedido(CpfSemCliente, <<"d1">>, 1),
     Pedido(CpfC1, <<"zz">>, 1),
     Pedido(CpfC1, <<"d9">>, 1),
     Pedido(CpfC1, <<"d1", "d3">>, 1),
     Pedido(CpfC1, <<"d1", "d1">>, 1),
     Pedido(CpfC1, <<"d2">>, 1),
     Pedido(CpfC2, <<"d3">>, 1),
     Pedido(CpfC1, <<"d1">>, 3),
     Pedido(CpfC1, <<"d1", "d2">>, 3)}

\* boleto ids a request may carry: the ids ObjectId() hands out, the seeded
\* boletos (-1, 0) and a string that is no ObjectId (-9)
BoletosConcorrentes == 1..MaxBoletos
BoletosTodos == {-9, -1, 0} \cup BoletosConcorrentes

ObjectIdBoletoValido(b) == b # -9

Usuarios == {"ana"}

\* the list of negotiable statuses with the settled debts let in
StatusNegociaveisComPago == {"ativo", "vencido", "inadimplente", "pago"}

\* line 979: the statuses a debt may be negotiated from
StatusNegociaveis == {"ativo", "vencido", "inadimplente"}

\* the debts of populate_test_data.py: d1 and d2 of customer c1, d1 due 29.5
\* days before the first tick and d2 half a day after it; d3 of customer c2,
\* already paid, without valor_atual
DividaSeed(d, st, valor) ==
    IF d = "d1" THEN
        [cliente_id |-> "c1", status |-> st, boleto_id |-> Nenhum,
         valor_atual |-> Algum(valor), valor_original |-> 9000,
         data_vencimento |-> Algum(1 - 30 * TicksPerDay)]
    ELSE IF d = "d2" THEN
        [cliente_id |-> "c1", status |-> "ativo", boleto_id |-> Nenhum,
         valor_atual |-> Algum(4999), valor_original |-> 4000,
         data_vencimento |-> Algum(1)]
    ELSE
        [cliente_id |-> "c2", status |-> "pago", boleto_id |-> Nenhum,
         valor_atual |-> Nenhum, valor_original |-> 25000,
         data_vencimento |-> Nenhum]

\* a boleto of generate_test_data.py: no dividas_ids, no divida_id, a
\* linha_digitavel out of the range the generator draws from here
BoletoSeed(st) ==
    [cliente_id |-> "c1", status |-> st, dividas_ids |-> <<>>,
     divida_id |-> Nenhum, valor_total |-> 0, valor_parcela |-> 0,
     parcelas |-> 0, data_cancelamento |-> Nenhum,
     cancelado_por |-> Nenhum, observacoes |-> <<>>,
     linha_digitavel |-> 0]

\* a response: the worker and the kind of request it answers, its status, the
\* maximum number of installments a refusal reports, the boleto id of the
\* request path or of the body, and the warning logged when the cache
\* invalidation raised
Resposta(w, op, res, max_parcelas, boleto_id, aviso_cache) ==
    [worker |-> w, op |-> op, result |-> res, max_parcelas |-> max_parcelas,
     boleto_id |-> boleto_id, aviso_cache |-> aviso_cache]

SemResposta == Resposta("", "", "", 0, Nenhum, FALSE)

ProcIdle ==
    [op |-> "idle", pc |-> "idle",
     cliente |-> "", ids |-> <<>>, parcelas |-> 0,
     dividas |-> <<>>, i |-> 0, nao_negociaveis |-> {},
     valor_total |-> 0, valor_parcela |-> 0,
     boleto_id |-> Nenhum,
     associadas |-> <<>>, data_cancelamento |-> 0, restauradas |-> <<>>,
     usuario |-> "", boleto |-> Nenhum]

\* no Money object in hand, no call made
SemMoney ==
    [a |-> Nenhum, b |-> Nenhum, bruto_a |-> 0, bruto_b |-> 0,
     op |-> "", entrada |-> 0, r |-> Nenhum]

\* no CPF text validated yet
SemValidacao == [valor |-> <<>>, validate_cpf |-> Nenhum, criado |-> Nenhum]

\* no Pagamento in hand
SemPagamento ==
    [status |-> "", observacoes |-> <<>>, codigo_transacao |-> Nenhum,
     data_processamento |-> Nenhum, op |-> "", raised |-> FALSE,
     foi_aprovado |-> FALSE]

InitColecoes(s1, valor) ==
    /\ dividas = [d \in IdsDividas |-> DividaSeed(d, s1, valor)]
    /\ boletos = (0 :> BoletoSeed("ativo")) @@ ((-1) :> BoletoSeed("pago"))
    /\ auditoria = <<>>
    /\ now = 0
    /\ next_oid = 1
    /\ escreveu = [w \in Workers |-> FALSE]

InitLoja(s1, valor) ==
    /\ InitColecoes(s1, valor)
    /\ money = SemMoney
    /\ validacao = SemValidacao
    /\ pagamento = SemPagamento
    /\ cache = {}

Init ==
    /\ InitLoja("ativo", 10000)
    /\ proc = [w \in Workers |-> ProcIdle]
    /\ resposta = SemResposta

\* ---------------------------------------------------------------- helpers
\* the handler returns or raises HTTPException: the response goes out, the
\* locals are dropped, the worker is free
Responde(w, op, res, max_parcelas) ==
    /\ proc' = [proc EXCEPT ![w] = ProcIdle]
    /\ resposta' = Resposta(w, op, res, max_parcelas, Nenhum, FALSE)

\* the response to the request p: a cancellation is addressed by its boleto
\* id, a successful negotiation returns the id of its boleto
TerminaComAviso(w, p, res, aviso_cache) ==
    /\ proc' = [proc EXCEPT ![w] = ProcIdle]
    /\ resposta' = Resposta(w, p.op, res, 0,
                            IF p.op = "cancelar" \/ res = "ok"
                            THEN p.boleto_id ELSE Nenhum,
                            aviso_cache)

Termina(w, p, res) == TerminaComAviso(w, p, res, FALSE)

Continua(w, p) ==
    /\ proc' = [proc EXCEPT ![w] = p]
    /\ resposta' = SemResposta

Livre(w) == proc[w].pc = "idle"

\* db.dividas.find({"_id": {"$in": ids}, "cliente_id": cliente}): the
\* matching documents, each once, in collection order
FindDividas(ids, cliente) ==
    SelectSeq(OrdemDividas,
              LAMBDA d : d \in Range(ids) /\ dividas[d].cliente_id = cliente)

\* db.boletos.find_one({"divida_id": d, "status": {"$in": ["ativo", "pendente"]}})
BoletoExistente(d) ==
    \E b \in DOMAIN boletos :
        /\ boletos[b].divida_id = Algum(d)
        /\ boletos[b].status \in {"ativo", "pendente"}

\* divida.get("valor_atual", divida.get("valor_original", 0))
\* divida.get("valor_atual", 0)
ValorDividaSemOriginal(doc) ==
    IF doc.valor_atual # Nenhum THEN doc.valor_atual[1] ELSE 0

ValorDivida(doc) ==
    IF doc.valor_atual # Nenhum THEN doc.valor_atual[1] ELSE doc.valor_original

\* the floor compared with the installment rounded to the cent
ParcelaArredondadaAbaixoDoMinimo(valor_total, parcelas) ==
    (2 * valor_total + parcelas) \div (2 * parcelas) < ParcelaMinima

\* valor_parcela < 50.0, with valor_parcela = valor_total / parcelas
ParcelaAbaixoDoMinimo(valor_total, parcelas) ==
    valor_total < ParcelaMinima * parcelas

\* int(valor_total / 50.0)
CalculaMaxParcelas(valor_total) == valor_total \div ParcelaMinima

\* round(valor_parcela, 2): the nearest cent; a quotient exactly half way
\* between two cents is not representable in binary floating point and may
\* land on either side
ArredondaParcela(valor_total, parcelas) ==
    LET q == valor_total \div parcelas
        r == valor_total % parcelas
    IN  IF 2 * r < parcelas THEN {q}
        ELSE IF 2 * r > parcelas THEN {q + 1}
        ELSE {q, q + 1}

\* (datetime.now() - dv).days
DiasVencido(dv, agora) == (agora - dv) \div TicksPerDay

\* the limit of 30 days taken as exclusive
StatusOriginalLimiteExclusivo(data_vencimento, agora) ==
    IF data_vencimento = Nenhum THEN "ativo"
    ELSE LET dias_vencido == DiasVencido(data_vencimento[1], agora)
         IN  IF dias_vencido > 0
             THEN IF dias_vencido < LimiteVencido THEN "vencido"
                  ELSE "inadimplente"
             ELSE "ativo"

\* status_original of cancelar_boleto
StatusOriginal(data_vencimento, agora) ==
    IF data_vencimento = Nenhum THEN "ativo"
    ELSE LET dias_vencido == DiasVencido(data_vencimento[1], agora)
         IN  IF dias_vencido > 0
             THEN IF dias_vencido <= LimiteVencido THEN "vencido"
                  ELSE "inadimplente"
             ELSE "ativo"

\* ------------------------------------------------------------ gerar_boleto
\* lines 917-971: validations, customer lookup, debt lookup
gerar_boleto_inicio(w, cpf, ids, parcelas) ==
    LET p == [ProcIdle EXCEPT !.op = "gerar", !.ids = ids, !.parcelas = parcelas]
    IN
    /\ Livre(w)
    /\ UNCHANGED <<dividas, boletos, auditoria, now, next_oid>>
    /\ IF ~(MinParcelas <= parcelas /\ parcelas <= MaxParcelas)
         THEN Termina(w, p, "400_parcelas")
       ELSE IF ids = <<>>
         THEN Termina(w, p, "400_sem_dividas")
       ELSE IF ~validate_cpf(cpf)
         THEN Termina(w, p, "400_cpf")
       ELSE IF cpf \notin DOMAIN clientes
         THEN Termina(w, p, "404_cliente")
       ELSE IF \E k \in 1..Len(ids) : ~ObjectIdValido(ids[k])
         THEN Termina(w, p, "400_ids")
       ELSE
         LET cli == clientes[cpf]
             achadas == FindDividas(ids, cli)
         IN  IF Len(achadas) # Len(ids)
               THEN Termina(w, p, "404_dividas")
             ELSE Continua(w,
                       [p EXCEPT !.cliente = cli,
                                 !.pc = "verifica",
                                 !.i = 1,
                                 !.dividas = [k \in 1..Len(achadas) |->
                                     [id |-> achadas[k],
                                      status |-> dividas[achadas[k]].status,
                                      valor |-> ValorDivida(dividas[achadas[k]])]]])

\* lines 1001-1080, after the loop: refusals, installment floor, boleto_data
gerar_boleto_calcula(w, p) ==
    IF p.nao_negociaveis # {}
      THEN /\ Termina(w, p, "400_nao_negociavel")
           /\ UNCHANGED next_oid
    ELSE IF ParcelaAbaixoDoMinimo(p.valor_total, p.parcelas)
      THEN /\ Responde(w, p.op, "400_parcela_minima",
                       CalculaMaxParcelas(p.valor_total))
           /\ UNCHANGED next_oid
    ELSE /\ \E vp \in ArredondaParcela(p.valor_total, p.parcelas) :
              Continua(w, [p EXCEPT !.pc = "insert", !.valor_parcela = vp])
         /\ UNCHANGED next_oid

\* the loop marking each debt it accepts as negotiated before the request is
\* known to be acceptable
gerar_boleto_verifica_marca_no_laco(w) ==
    LET p == proc[w]
        divida == p.dividas[p.i]
        recusada == \/ divida.status \notin StatusNegociaveis
                    \/ BoletoExistente(divida.id)
        q == [p EXCEPT !.i = p.i + 1,
                       !.nao_negociaveis =
                           IF recusada THEN @ \cup {divida.id} ELSE @,
                       !.valor_total =
                           IF recusada THEN @ ELSE @ + divida.valor]
    IN
    /\ p.pc = "verifica"
    /\ dividas' = IF recusada THEN dividas
                  ELSE [dividas EXCEPT ![divida.id].status = "negociado"]
    /\ UNCHANGED <<boletos, auditoria, now>>
    /\ IF p.i < Len(p.dividas)
         THEN /\ Continua(w, q)
              /\ UNCHANGED next_oid
         ELSE gerar_boleto_calcula(w, q)

\* lines 977-999: one iteration of the loop over the debts found, with the
\* lookup of an open boleto of the debt; the last iteration runs on into
\* the code after the loop
gerar_boleto_verifica(w) ==
    LET p == proc[w]
        divida == p.dividas[p.i]
        recusada == \/ divida.status \notin StatusNegociaveis
                    \/ BoletoExistente(divida.id)
        q == [p EXCEPT !.i = p.i + 1,
                       !.nao_negociaveis =
                           IF recusada THEN @ \cup {divida.id} ELSE @,
                       !.valor_total =
                           IF recusada THEN @ ELSE @ + divida.valor]
    IN
    /\ p.pc = "verifica"
    /\ UNCHANGED <<dividas, boletos, auditoria, now>>
    /\ IF p.i < Len(p.dividas)
         THEN /\ Continua(w, q)
              /\ UNCHANGED next_oid
         ELSE gerar_boleto_calcula(w, q)

\* line 1082: db.boletos.insert_one(boleto_data); the ObjectId() of line 1060
\* is drawn here, it is fresh whenever it is drawn; linha_digitavel is the
\* line the random generator of lines 1037-1046 has drawn, which nothing
\* compares with the lines in the store
gerar_boleto_insert(w, linha_digitavel) ==
    LET p == proc[w] IN
    /\ p.pc = "insert"
    /\ next_oid <= MaxBoletos
    /\ next_oid' = next_oid + 1
    /\ boletos' = (next_oid :>
                     [cliente_id |-> p.cliente, status |-> "ativo",
                      dividas_ids |-> p.ids, divida_id |-> Nenhum,
                      valor_total |-> p.valor_total,
                      valor_parcela |-> p.valor_parcela,
                      parcelas |-> p.parcelas,
                      data_cancelamento |-> Nenhum,
                      cancelado_por |-> Nenhum,
                      observacoes |-> <<>>,
                      linha_digitavel |-> linha_digitavel]) @@ boletos
    /\ Continua(w, [p EXCEPT !.pc = "update", !.boleto_id = Algum(next_oid)])
    /\ UNCHANGED <<dividas, auditoria, now>>

\* the update of the debts without their boleto_id
gerar_boleto_update_sem_boleto_id(w) ==
    LET p == proc[w] IN
    /\ p.pc = "update"
    /\ dividas' = [d \in IdsDividas |->
                     IF d \in Range(p.ids)
                     THEN [dividas[d] EXCEPT !.status = "negociado"]
                     ELSE dividas[d]]
    /\ Termina(w, p, "ok")
    /\ UNCHANGED <<boletos, auditoria, now, next_oid>>

\* lines 1085-1122: db.dividas.update_many, cache invalidation, response; the
\* cache delete may raise, which is logged and nothing more
gerar_boleto_update(w) ==
    LET p == proc[w] IN
    /\ p.pc = "update"
    /\ dividas' = [d \in IdsDividas |->
                     IF d \in Range(p.ids)
                     THEN [dividas[d] EXCEPT !.status = "negociado",
                                             !.boleto_id = p.boleto_id]
                     ELSE dividas[d]]
    /\ \E aviso_cache \in BOOLEAN : TerminaComAviso(w, p, "ok", aviso_cache)
    /\ UNCHANGED <<boletos, auditoria, now, next_oid>>

\* lines 1126-1131: the database operation awaited raises; the handler
\* answers 500 and undoes nothing
gerar_boleto_falha(w) ==
    LET p == proc[w] IN
    /\ p.pc \in {"verifica", "insert", "update"}
    /\ Termina(w, p, "500")
    /\ UNCHANGED <<dividas, boletos, auditoria, now, next_oid>>

\* --------------------------------------------------------- cancelar_boleto
\* the status check refusing only the boleto already canceled
cancelar_boleto_inicio_so_cancelado(w, boleto_id, usuario) ==
    LET p == [ProcIdle EXCEPT !.op = "cancelar", !.boleto_id = Algum(boleto_id),
                              !.usuario = usuario]
    IN
    /\ Livre(w)
    /\ UNCHANGED <<dividas, boletos, auditoria, now, next_oid>>
    /\ IF ~ObjectIdBoletoValido(boleto_id)
         THEN Termina(w, p, "400_id")
       ELSE IF boleto_id \notin DOMAIN boletos
         THEN Termina(w, p, "404_boleto")
       ELSE IF boletos[boleto_id].status = "cancelado"
         THEN Termina(w, p, "400_status")
       ELSE Continua(w, [p EXCEPT !.pc = "busca"])

\* lines 1145-1165: id check, boleto lookup, status check
cancelar_boleto_inicio(w, boleto_id, usuario) ==
    LET p == [ProcIdle EXCEPT !.op = "cancelar", !.boleto_id = Algum(boleto_id),
                              !.usuario = usuario]
    IN
    /\ Livre(w)
    /\ UNCHANGED <<dividas, boletos, auditoria, now, next_oid>>
    /\ IF ~ObjectIdBoletoValido(boleto_id)
         THEN Termina(w, p, "400_id")
       ELSE IF boleto_id \notin DOMAIN boletos
         THEN Termina(w, p, "404_boleto")
       ELSE IF boletos[boleto_id].status \in {"pago", "cancelado"}
         THEN Termina(w, p, "400_status")
       ELSE Continua(w, [p EXCEPT !.pc = "busca"])

\* the boleto marked canceled before its debts are looked up
cancelar_boleto_busca_apos_cancelar(w) ==
    LET p == proc[w]
        dividas_associadas ==
            SelectSeq(OrdemDividas,
                      LAMBDA d : dividas[d].boleto_id = p.boleto_id)
    IN
    /\ p.pc = "busca"
    /\ boletos' = [boletos EXCEPT ![p.boleto_id[1]].status = "cancelado"]
    /\ UNCHANGED <<dividas, auditoria, now, next_oid>>
    /\ IF dividas_associadas = <<>>
         THEN Termina(w, p, "404_sem_dividas")
         ELSE Continua(w, [p EXCEPT !.pc = "boleto",
                                    !.associadas = dividas_associadas,
                                    !.data_cancelamento = now])

\* lines 1167-1178: the debts whose boleto_id is the boleto
cancelar_boleto_busca(w) ==
    LET p == proc[w]
        dividas_associadas ==
            SelectSeq(OrdemDividas,
                      LAMBDA d : dividas[d].boleto_id = p.boleto_id)
    IN
    /\ p.pc = "busca"
    /\ UNCHANGED <<dividas, boletos, auditoria, now, next_oid>>
    /\ IF dividas_associadas = <<>>
         THEN Termina(w, p, "404_sem_dividas")
         ELSE Continua(w, [p EXCEPT !.pc = "boleto",
                                    !.associadas = dividas_associadas,
                                    !.data_cancelamento = now])

\* the update of the boleto without cancelado_por
cancelar_boleto_boleto_sem_autor(w) ==
    LET p == proc[w] IN
    /\ p.pc = "boleto"
    /\ boletos' = [boletos EXCEPT ![p.boleto_id[1]] =
                      [@ EXCEPT !.status = "cancelado",
                                !.data_cancelamento = Algum(p.data_cancelamento)]]
    /\ Continua(w, [p EXCEPT !.pc = "divida", !.i = 1])
    /\ UNCHANGED <<dividas, auditoria, now, next_oid>>

\* lines 1179-1189: db.boletos.update_one
cancelar_boleto_boleto(w) ==
    LET p == proc[w] IN
    /\ p.pc = "boleto"
    /\ boletos' = [boletos EXCEPT ![p.boleto_id[1]] =
                      [@ EXCEPT !.status = "cancelado",
                                !.data_cancelamento = Algum(p.data_cancelamento),
                                !.cancelado_por = Algum(p.usuario)]]
    /\ Continua(w, [p EXCEPT !.pc = "divida", !.i = 1])
    /\ UNCHANGED <<dividas, auditoria, now, next_oid>>

\* the restoration of a debt without the $unset of its boleto_id
cancelar_boleto_divida_sem_unset(w) ==
    LET p == proc[w]
        d == p.associadas[p.i]
        status_original == StatusOriginal(dividas[d].data_vencimento, now)
    IN
    /\ p.pc = "divida"
    /\ dividas' = [dividas EXCEPT ![d] = [@ EXCEPT !.status = status_original]]
    /\ Continua(w, [p EXCEPT !.i = p.i + 1,
                              !.restauradas = Append(@, d),
                              !.pc = IF p.i < Len(p.associadas) THEN "divida"
                                     ELSE "auditoria"])
    /\ UNCHANGED <<boletos, auditoria, now, next_oid>>

\* lines 1193-1220: one iteration of the loop restoring the debts
cancelar_boleto_divida(w) ==
    LET p == proc[w]
        d == p.associadas[p.i]
        status_original == StatusOriginal(dividas[d].data_vencimento, now)
    IN
    /\ p.pc = "divida"
    /\ dividas' = [dividas EXCEPT ![d] =
                      [@ EXCEPT !.status = status_original,
                                !.boleto_id = Nenhum]]
    /\ Continua(w, [p EXCEPT !.i = p.i + 1,
                              !.restauradas = Append(@, d),
                              !.pc = IF p.i < Len(p.associadas) THEN "divida"
                                     ELSE "auditoria"])
    /\ UNCHANGED <<boletos, auditoria, now, next_oid>>

\* lines 1222-1258: db.auditoria.insert_one, cache invalidation, response;
\* the cache delete may raise, which is logged and nothing more
cancelar_boleto_auditoria(w) ==
    LET p == proc[w] IN
    /\ p.pc = "auditoria"
    /\ auditoria' = Append(auditoria,
                           [boleto_id |-> p.boleto_id[1],
                            dividas_restauradas |-> p.associadas,
                            usuario |-> p.usuario])
    /\ \E aviso_cache \in BOOLEAN : TerminaComAviso(w, p, "ok", aviso_cache)
    /\ UNCHANGED <<dividas, boletos, now, next_oid>>

\* lines 1261-1263: the database operation awaited raises; the handler
\* answers 500 and undoes nothing
cancelar_boleto_falha(w) ==
    LET p == proc[w] IN
    /\ p.pc \in {"busca", "boleto", "divida", "auditoria"}
    /\ Termina(w, p, "500")
    /\ UNCHANGED <<dividas, boletos, auditoria, now, next_oid>>

\* ------------------------------------------- CancelarBoletoUseCase.execute
\* the status check of Boleto.cancelar, which refuses a paid boleto only
cancelar_execute_busca_so_pago(w, boleto_id, motivo) ==
    LET p == [ProcIdle EXCEPT !.op = "uc_cancelar", !.boleto_id = boleto_id]
    IN
    /\ Livre(w)
    /\ UNCHANGED <<dividas, boletos, auditoria, now, next_oid>>
    /\ IF boleto_id = Nenhum
         THEN Termina(w, p, "ValueError")
       ELSE IF boleto_id[1] \notin DOMAIN boletos
         THEN Termina(w, p, "None")
       ELSE IF boletos[boleto_id[1]].status = "pago"
         THEN Termina(w, p, "ValueError")
       ELSE Continua(w,
                [p EXCEPT !.pc = "uc_salvar",
                          !.data_cancelamento = now,
                          !.boleto = Algum(
                              [boletos[boleto_id[1]] EXCEPT
                                  !.status = "cancelado",
                                  !.data_cancelamento = Algum(now),
                                  !.observacoes =
                                      IF motivo = Nenhum THEN @
                                      ELSE Append(@, motivo[1])])])

\* lines 50-81: id check, repository lookup, status check, the entity
\* loaded is marked canceled
cancelar_execute_busca(w, boleto_id, motivo) ==
    LET p == [ProcIdle EXCEPT !.op = "uc_cancelar", !.boleto_id = boleto_id]
    IN
    /\ Livre(w)
    /\ UNCHANGED <<dividas, boletos, auditoria, now, next_oid>>
    /\ IF boleto_id = Nenhum
         THEN Termina(w, p, "ValueError")
       ELSE IF boleto_id[1] \notin DOMAIN boletos
         THEN Termina(w, p, "None")
       ELSE IF boletos[boleto_id[1]].status \in {"cancelado", "pago"}
         THEN Termina(w, p, "ValueError")
       ELSE Continua(w,
                [p EXCEPT !.pc = "uc_salvar",
                          !.data_cancelamento = now,
                          !.boleto = Algum(
                              [boletos[boleto_id[1]] EXCEPT
                                  !.status = "cancelado",
                                  !.data_cancelamento = Algum(now),
                                  !.observacoes =
                                      IF motivo = Nenhum THEN @
                                      ELSE Append(@, motivo[1])])])

\* line 84: boleto_repository.salvar(boleto), the entity replaces the record
cancelar_execute_salvar(w) ==
    LET p == proc[w] IN
    /\ p.pc = "uc_salvar"
    /\ boletos' = [boletos EXCEPT ![p.boleto_id[1]] = p.boleto[1]]
    /\ Continua(w, [p EXCEPT !.pc = "uc_cache"])
    /\ UNCHANGED <<dividas, auditoria, now, next_oid>>

\* lines 86-125: the two cache deletes and the response; a delete that
\* raises is caught by 'except Exception' and raised again
cancelar_execute_cache(w) ==
    LET p == proc[w] IN
    /\ p.pc = "uc_cache"
    /\ \E cache_falha \in BOOLEAN :
          IF cache_falha THEN TerminaComAviso(w, p, "Exception", TRUE)
          ELSE Termina(w, p, "ok")
    /\ UNCHANGED <<dividas, boletos, auditoria, now, next_oid>>

\* lines 118-125: the repository raises at salvar
cancelar_execute_falha(w) ==
    LET p == proc[w] IN
    /\ p.pc = "uc_salvar"
    /\ Termina(w, p, "Exception")
    /\ UNCHANGED <<dividas, boletos, auditoria, now, next_oid>>

\* ---------------------------------------------- GerarBoletoUseCase.execute
\* lines 54-140: validations, customer lookup, Boleto.validar; validar reads
\* valor.amount (boleto.py line 48), an attribute Money does not have, the
\* AttributeError is wrapped in RuntimeError before anything is saved
gerar_execute(w, valor, cliente_id, descricao) ==
    LET p == [ProcIdle EXCEPT !.op = "uc_gerar", !.cliente = cliente_id]
    IN
    /\ Livre(w)
    /\ UNCHANGED <<dividas, boletos, auditoria, now, next_oid>>
    /\ IF valor <= 0 \/ cliente_id = "" \/ descricao = ""
         THEN Termina(w, p, "ValueError")
       ELSE IF cliente_id \notin {clientes[c] : c \in DOMAIN clientes}
         THEN Termina(w, p, "ValueError")
       ELSE Termina(w, p, "RuntimeError")

\* ------------------------------------------------------------------ Money
\* A Money object is its valor in whole cents and its moeda.  An amount not
\* yet rounded is a fraction num / den of the currency unit; the values a
\* caller passes (amounts, factors, divisors, percentages) are decimals in
\* thousandths.  A call that raises ValueError yields Nenhum.

\* valor.quantize(Decimal("0.01"), rounding=ROUND_HALF_DOWN), for num / den >= 0
QuantizeMeioAbaixo(num, den) ==
    LET n == 100 * num
        q == n \div den
        r == n % den
    IN  IF 2 * r > den THEN q + 1 ELSE q

\* valor.quantize(Decimal("0.01"), rounding=ROUND_HALF_UP), for num / den >= 0
Quantize(num, den) ==
    LET n == 100 * num
        q == n \div den
        r == n % den
    IN  IF 2 * r >= den THEN q + 1 ELSE q

Abs(n) == IF n < 0 THEN 0 - n ELSE n

\* Money(valor, moeda), __post_init__: negative amounts raise, the others are
\* rounded to the cent
post_init(num, den, moeda) ==
    IF (num < 0 /\ den > 0) \/ (num > 0 /\ den < 0) THEN Nenhum
    ELSE Algum([valor |-> Quantize(Abs(num), Abs(den)), moeda |-> moeda])

\* somar without the comparison of the currencies
somar_sem_conferir_moeda(self, outro) ==
    post_init(self.valor + outro.valor, 100, self.moeda)

somar(self, outro) ==
    IF self.moeda # outro.moeda THEN Nenhum
    ELSE post_init(self.valor + outro.valor, 100, self.moeda)

\* subtrair without the comparison of the currencies
subtrair_sem_conferir_moeda(self, outro) ==
    LET resultado == self.valor - outro.valor
    IN  IF resultado < 0 THEN Nenhum
        ELSE post_init(resultado, 100, self.moeda)

subtrair(self, outro) ==
    IF self.moeda # outro.moeda THEN Nenhum
    ELSE LET resultado == self.valor - outro.valor
         IN  IF resultado < 0 THEN Nenhum
             ELSE post_init(resultado, 100, self.moeda)

multiplicar(self, fator) ==
    post_init(self.valor * fator, 100 * 1000, self.moeda)

dividir(self, divisor) ==
    IF divisor = 0 THEN Nenhum
    ELSE post_init(self.valor * 1000, 100 * divisor, self.moeda)

\* multiplicar(percentual / 100)
porcentagem(self, percentual) ==
    post_init(self.valor * percentual, 100 * 1000 * 100, self.moeda)

from_centavos(centavos, moeda) == post_init(centavos, 100, moeda)

Moedas == {"BRL", "USD"}

\* amounts passed to the constructor, in thousandths: one negative, the
\* others with up to three fractional digits
Brutos == (0 - 1)..MaxMils

\* factors, divisors and percentages, in thousandths: multiples of a half
Fatores == {500 * k : k \in (0 - 1)..MaxMeios}

\* one call on the Money objects in hand is recorded with its argument and
\* what it returned
Chamada(op, entrada, r) ==
    money' = [money EXCEPT !.op = op, !.entrada = entrada, !.r = r]

money_criar_a(bruto, moeda) ==
    /\ money' = [money EXCEPT !.a = post_init(bruto, 1000, moeda),
                              !.bruto_a = bruto,
                              !.op = "criar", !.entrada = bruto,
                              !.r = post_init(bruto, 1000, moeda)]
    /\ UNCHANGED <<loja, validacao, pagamento, cache>>

money_criar_b(bruto, moeda) ==
    /\ money' = [money EXCEPT !.b = post_init(bruto, 1000, moeda),
                              !.bruto_b = bruto,
                              !.op = "criar", !.entrada = bruto,
                              !.r = post_init(bruto, 1000, moeda)]
    /\ UNCHANGED <<loja, validacao, pagamento, cache>>

\* a call of a method of a on b, or of a on a number
money_opera ==
    /\ money.a # Nenhum
    /\ \/ /\ money.b # Nenhum
          /\ \/ Chamada("somar", 0, somar(money.a[1], money.b[1]))
             \/ Chamada("subtrair", 0, subtrair(money.a[1], money.b[1]))
       \/ \E f \in Fatores :
             \/ Chamada("multiplicar", f, multiplicar(money.a[1], f))
             \/ Chamada("dividir", f, dividir(money.a[1], f))
             \/ Chamada("porcentagem", f, porcentagem(money.a[1], f))
    /\ UNCHANGED <<loja, validacao, pagamento, cache>>

money_from_centavos(centavos, moeda) ==
    /\ Chamada("from_centavos", centavos, from_centavos(centavos, moeda))
    /\ UNCHANGED <<loja, validacao, pagamento, cache>>

\* -------------------------------------------------------------------- CPF
\* one call of validate_cpf of main.py on the text in hand
chama_validate_cpf ==
    /\ validacao.validate_cpf = Nenhum
    /\ validacao' = [validacao EXCEPT
                        !.validate_cpf = Algum(validate_cpf(validacao.valor))]
    /\ UNCHANGED <<loja, money, pagamento, cache>>

\* CPF(valor), __post_init__: raises ValueError unless _validar() holds
CPF_post_init ==
    /\ validacao.criado = Nenhum
    /\ validacao' = [validacao EXCEPT
                        !.criado = Algum(CPF_validar(validacao.valor))]
    /\ UNCHANGED <<loja, money, pagamento, cache>>

\* -------------------------------------------------------------- Pagamento
\* observacoes is the sequence of its lines, None the empty sequence; a call
\* is recorded with its name and whether it raised ValueError; foi_aprovado
\* observes that the status has been aprovado
StatusPagamento ==
    {"pendente", "processando", "aprovado", "rejeitado", "cancelado"}

MotivosPagamento == {Nenhum, Algum("motivo")}

\* the lines of observacoes after a call with the motivo given
Anota(rotulo, motivo) ==
    IF motivo = Nenhum THEN pagamento.observacoes
    ELSE Append(pagamento.observacoes, <<rotulo, motivo[1]>>)

pagamento_aprovar(codigo_transacao) ==
    /\ pagamento' = [pagamento EXCEPT
                        !.status = "aprovado",
                        !.codigo_transacao = Algum(codigo_transacao),
                        !.data_processamento = Algum(now),
                        !.op = "aprovar", !.raised = FALSE,
                        !.foi_aprovado = TRUE]
    /\ UNCHANGED <<loja, money, validacao, cache>>

pagamento_rejeitar(motivo) ==
    /\ motivo # Nenhum => Len(pagamento.observacoes) < MaxObservacoes
    /\ pagamento' = [pagamento EXCEPT
                        !.status = "rejeitado",
                        !.data_processamento = Algum(now),
                        !.observacoes = Anota("Rejeitado", motivo),
                        !.op = "rejeitar", !.raised = FALSE]
    /\ UNCHANGED <<loja, money, validacao, cache>>

pagamento_cancelar(motivo) ==
    /\ motivo # Nenhum => Len(pagamento.observacoes) < MaxObservacoes
    /\ IF pagamento.status = "aprovado"
         THEN pagamento' = [pagamento EXCEPT !.op = "cancelar", !.raised = TRUE]
         ELSE pagamento' = [pagamento EXCEPT
                               !.status = "cancelado",
                               !.observacoes = Anota("Cancelado", motivo),
                               !.op = "cancelar", !.raised = FALSE]
    /\ UNCHANGED <<loja, money, validacao, cache>>

\* ------------------------------------------------------------- environment
Tick ==
    /\ now < MaxNow
    /\ now' = now + 1
    /\ resposta' = SemResposta
    /\ UNCHANGED <<dividas, boletos, auditoria, proc, next_oid, escreveu>>
    /\ UNCHANGED <<objetos, cache>>

\* observer: the request in hand at w, not yet answered, has changed a
\* collection
Observa(w) ==
    escreveu' = [escreveu EXCEPT ![w] =
        /\ proc'[w].pc # "idle"
        /\ @ \/ <<dividas, boletos, auditoria>>' # <<dividas, boletos, auditoria>>]

\* the keys of the cache
ChaveClienteCpf(cpf) == <<"cliente:cpf", cpf>>
ChaveCliente(cliente_id) == <<"cliente", cliente_id>>
ChaveBoleto(boleto_id) == <<"boleto", boleto_id>>

\* the cache after the step of worker w: a handler that answers 200 without
\* the warning has deleted the entry of the customer's cpf, a use case that
\* returns has deleted the entries of the boleto and of the customer id
InvalidaCache(w) ==
    cache' =
        IF resposta'.result # "ok" \/ resposta'.aviso_cache THEN cache
        ELSE IF proc[w].op \in {"gerar", "cancelar"}
          THEN LET cliente_id ==
                       IF proc[w].op = "gerar" THEN proc[w].cliente
                       ELSE boletos[proc[w].boleto_id[1]].cliente_id
               IN  cache \ {ChaveClienteCpf(c) : c \in
                              {c \in DOMAIN clientes : clientes[c] = cliente_id}}
        ELSE IF proc[w].op = "uc_cancelar"
          THEN cache \ {ChaveBoleto(proc[w].boleto_id),
                        ChaveCliente(proc[w].boleto[1].cliente_id)}
        ELSE cache

\* BuscarClienteUseCase.execute: CPF(request.cpf), the cache read under
\* cliente:cpf:<cpf>, the repository on a miss, the cache written with what
\* the repository found
buscar_cliente_execute(w, cpf) ==
    LET p == [ProcIdle EXCEPT !.op = "uc_buscar"]
        cache_key == ChaveClienteCpf(SelectSeq(cpf, DigitoAscii))
    IN
    /\ Livre(w)
    /\ IF ~CPF_validar(cpf)
         THEN Termina(w, p, "ValueError") /\ UNCHANGED cache
       ELSE IF cache_key \in cache
         THEN Termina(w, p, "ok") /\ UNCHANGED cache
       ELSE IF cpf \notin DOMAIN clientes
         THEN Termina(w, p, "None") /\ UNCHANGED cache
       ELSE Termina(w, p, "ok") /\ cache' = cache \cup {cache_key}
    /\ UNCHANGED <<dividas, boletos, auditoria, now, next_oid, escreveu, objetos>>

\* a step of a handler at worker w, for the requests, the boleto ids and the
\* draws of the line generator given
PassoCom(w, pedidos, alvos, linhas) ==
    /\ \/ \E r \in pedidos :
            gerar_boleto_inicio(w, r.cliente_cpf, r.dividas_ids, r.parcelas)
       \/ gerar_boleto_verifica(w)
       \/ \E linha \in linhas : gerar_boleto_insert(w, linha)
       \/ gerar_boleto_update(w)
       \/ gerar_boleto_falha(w)
       \/ \E b \in alvos, u \in Usuarios : cancelar_boleto_inicio(w, b, u)
       \/ cancelar_boleto_busca(w)
       \/ cancelar_boleto_boleto(w)
       \/ cancelar_boleto_divida(w)
       \/ cancelar_boleto_auditoria(w)
       \/ cancelar_boleto_falha(w)
    /\ Observa(w)
    /\ InvalidaCache(w)
    /\ UNCHANGED objetos

\* the same with every line drawn different from the lines drawn before, as
\* the generator all but always does
Passo(w, pedidos, alvos) == PassoCom(w, pedidos, alvos, {next_oid})

\* concurrent requests: they overlap for seconds, a tick is half a day, the
\* clock stands still
Next ==
    \E w \in Workers : Passo(w, PedidosConcorrentes, BoletosConcorrentes)

Spec == Init /\ [][Next]_vars

\* requests handled one at a time, of every kind, while the days pass: a
\* worker moves only while the others are idle
NextSeq ==
    \/ \E w \in Workers :
          /\ \A v \in Workers \ {w} : Livre(v)
          /\ Passo(w, PedidosTodos, BoletosTodos)
    \/ Tick

InitSeq ==
    /\ \E s1 \in {"ativo", "inadimplente"} : InitLoja(s1, 10000)
    /\ proc = [w \in Workers |-> ProcIdle]
    /\ resposta = SemResposta

SpecSeq == InitSeq /\ [][NextSeq]_vars

\* the installment floor over a range of amounts: one debt of any amount
\* within MaxDelta cents of a multiple of the floor, one client asking for
\* every number of installments
ValoresParcela ==
    {ParcelaMinima * k + e : k \in MinParcelas..MaxParcelas,
                             e \in (0 - MaxDelta)..MaxDelta}

InitParcela ==
    /\ \E valor \in ValoresParcela : InitLoja("ativo", valor)
    /\ proc = [w \in Workers |-> ProcIdle]
    /\ resposta = SemResposta

NextParcela ==
    /\ \/ \E parcelas \in MinParcelas..MaxParcelas :
            gerar_boleto_inicio("w1", CpfC1, <<"d1">>, parcelas)
       \/ gerar_boleto_verifica("w1")
    /\ Observa("w1")
    /\ InvalidaCache("w1")
    /\ UNCHANGED objetos

SpecParcela == InitParcela /\ [][NextParcela]_vars

\* the same amounts and installment counts carried through to the store: the
\* boleto is inserted and the debt updated
NextGrava ==
    /\ \/ \E parcelas \in MinParcelas..MaxParcelas :
            gerar_boleto_inicio("w1", CpfC1, <<"d1">>, parcelas)
       \/ gerar_boleto_verifica("w1")
       \/ gerar_boleto_insert("w1", next_oid)
       \/ gerar_boleto_update("w1")
    /\ Observa("w1")
    /\ InvalidaCache("w1")
    /\ UNCHANGED objetos

SpecGrava == InitParcela /\ [][NextGrava]_vars

\* one client at a time over a store in any of its statuses: the seeded
\* boleto is active, overdue, paid or canceled, the debt of the second
\* customer is paid or canceled
StatusBoleto == {"ativo", "vencido", "pago", "cancelado"}
StatusTerminais == {"pago", "cancelado"}

PedidosEstados ==
    {Pedido(CpfC1, <<"d1">>, 1), Pedido(CpfC2, <<"d3">>, 1)}

BoletosEstados == {-9, 0} \cup BoletosConcorrentes

InitEstados ==
    /\ \E s3 \in StatusTerminais :
          dividas = [d \in IdsDividas |->
                        IF d = "d3"
                        THEN [DividaSeed(d, "ativo", 10000) EXCEPT !.status = s3]
                        ELSE DividaSeed(d, "ativo", 10000)]
    /\ \E s0 \in StatusBoleto : boletos = (0 :> BoletoSeed(s0))
    /\ auditoria = <<>>
    /\ now = 0
    /\ next_oid = 1
    /\ escreveu = [w \in Workers |-> FALSE]
    /\ money = SemMoney
    /\ validacao = SemValidacao
    /\ pagamento = SemPagamento
    /\ cache = {}
    /\ proc = [w \in Workers |-> ProcIdle]
    /\ resposta = SemResposta

NextEstados == Passo("w1", PedidosEstados, BoletosEstados)

SpecEstados == InitEstados /\ [][NextEstados]_vars

\* the use case classes next to the handlers, one client at a time
AlvosCasoDeUso == {Nenhum, Algum(0), Algum(1), Algum(-9)}
Motivos == {Nenhum, Algum("desistencia")}

PassoCasoDeUso(w) ==
    /\ \/ \E b \in AlvosCasoDeUso, m \in Motivos : cancelar_execute_busca(w, b, m)
       \/ cancelar_execute_salvar(w)
       \/ cancelar_execute_cache(w)
       \/ cancelar_execute_falha(w)
       \/ \E valor \in {0, 10000}, c \in {"", "c1", "c9"}, descr \in {"", "acordo"} :
             gerar_execute(w, valor, c, descr)
    /\ Observa(w)
    /\ InvalidaCache(w)
    /\ UNCHANGED objetos

NextCasoDeUso ==
    \/ Passo("w1", PedidosEstados, BoletosEstados)
    \/ PassoCasoDeUso("w1")

SpecCasoDeUso == InitEstados /\ [][NextCasoDeUso]_vars

\* the line generator drawing from a few lines, so that draws repeat: one
\* client negotiating, cancelling and negotiating again
Linhas == 1..MaxLinhas

NextLinha ==
    PassoCom("w1", {Pedido(CpfC1, <<"d1">>, 1), Pedido(CpfC1, <<"d2">>, 1)},
             BoletosConcorrentes, Linhas)

SpecLinha == Init /\ [][NextLinha]_vars

\* the Money value object on its own: objects built from every amount, every
\* method called on them
NextMoney ==
    \/ \E bruto \in Brutos, moeda \in Moedas : money_criar_a(bruto, moeda)
    \/ \E bruto \in Brutos, moeda \in Moedas : money_criar_b(bruto, moeda)
    \/ money_opera
    \/ \E centavos \in Brutos, moeda \in Moedas :
          money_from_centavos(centavos, moeda)

SpecMoney == Init /\ [][NextMoney]_vars

\* the validations of a CPF on their own.  The texts: nine digits followed
\* by every pair of check digits, bare, formatted, one digit short, one digit
\* long, and with a digit of another script in place of or after the ASCII
\* ones.  The prefixes cover every case of the two sums modulo 11 (0, 1, more)
\* and the texts of one repeated digit.
Prefixos ==
    {<<1,1,1,4,4,4,7,7,7>>, <<1,0,7,9,9,1,1,8,3>>, <<1,2,3,4,5,6,7,8,9>>,
     <<1,1,1,1,1,1,1,1,1>>, <<0,0,0,0,0,0,0,0,0>>,
     <<9,4,2,0,8,0,9,3,9>>, <<9,2,9,4,7,8,2,2,2>>, <<8,2,8,8,3,6,0,7,5>>,
     <<8,6,8,8,6,9,9,4,7>>, <<5,5,4,5,8,8,0,8,1>>, <<7,0,4,9,9,9,6,2,2>>,
     <<8,1,2,4,1,5,8,6,8>>, <<7,3,6,6,2,5,8,5,1>>, <<2,9,1,4,1,7,7,7,6>>}

Textos ==
    LET onze == {p \o <<d1, d2>> : p \in Prefixos, d1 \in 0..9, d2 \in 0..9}
    IN  onze
        \cup {SubSeq(t, 1, 3) \o <<Ponto>> \o SubSeq(t, 4, 11) : t \in onze}
        \cup {SubSeq(t, 1, 10) : t \in onze}
        \cup {t \o <<0>> : t \in onze}
        \cup {<<t[1] + 10>> \o Tail(t) : t \in onze}
        \cup {t \o <<11>> : t \in onze}

InitCPF ==
    /\ InitColecoes("ativo", 10000)
    /\ proc = [w \in Workers |-> ProcIdle]
    /\ resposta = SemResposta
    /\ money = SemMoney
    /\ pagamento = SemPagamento
    /\ cache = {}
    /\ \E texto \in Textos : validacao = [SemValidacao EXCEPT !.valor = texto]

NextCPF ==
    \/ chama_validate_cpf
    \/ CPF_post_init

SpecCPF == InitCPF /\ [][NextCPF]_vars

\* debts with and without valor_atual: one client negotiating the two debts
\* of the first customer, alone and together
PedidosValores ==
    {Pedido(CpfC1, <<"d1">>, 1), Pedido(CpfC1, <<"d1", "d2">>, 1),
     Pedido(CpfC1, <<"d2", "d1">>, 2)}

InitValores ==
    /\ \E v1 \in {Nenhum, Algum(10000), Algum(10001)}, v2 \in {Nenhum, Algum(4999)} :
          dividas = [d \in IdsDividas |->
                        [DividaSeed(d, "ativo", 10000) EXCEPT
                            !.valor_atual = IF d = "d1" THEN v1
                                            ELSE IF d = "d2" THEN v2 ELSE @]]
    /\ boletos = (0 :> BoletoSeed("ativo"))
    /\ auditoria = <<>>
    /\ now = 0
    /\ next_oid = 1
    /\ escreveu = [w \in Workers |-> FALSE]
    /\ money = SemMoney
    /\ validacao = SemValidacao
    /\ pagamento = SemPagamento
    /\ cache = {}
    /\ proc = [w \in Workers |-> ProcIdle]
    /\ resposta = SemResposta

NextValores ==
    /\ \/ \E r \in PedidosValores :
            gerar_boleto_inicio("w1", r.cliente_cpf, r.dividas_ids, r.parcelas)
       \/ gerar_boleto_verifica("w1")
       \/ gerar_boleto_insert("w1", next_oid)
       \/ gerar_boleto_update("w1")
       \/ gerar_boleto_falha("w1")
    /\ Observa("w1")
    /\ InvalidaCache("w1")
    /\ UNCHANGED objetos

SpecValores == InitValores /\ [][NextValores]_vars

\* the use cases with the customer lookup that fills the cache
NextCache ==
    \/ PassoCasoDeUso("w1")
    \/ \E cpf \in {CpfC1, CpfC2, CpfSemCliente, CpfInvalido} :
          buscar_cliente_execute("w1", cpf)

SpecCache == InitEstados /\ [][NextCache]_vars

\* a Pagamento on its own, built in any status, every method called on it
\* while the clock runs
InitPagamento ==
    /\ InitColecoes("ativo", 10000)
    /\ proc = [w \in Workers |-> ProcIdle]
    /\ resposta = SemResposta
    /\ money = SemMoney
    /\ validacao = SemValidacao
    /\ cache = {}
    /\ \E status \in StatusPagamento :
          pagamento = [SemPagamento EXCEPT
                          !.status = status,
                          !.foi_aprovado = (status = "aprovado")]

NextPagamento ==
    \/ \E codigo_transacao \in {"tx1", "tx2"} : pagamento_aprovar(codigo_transacao)
    \/ \E motivo \in MotivosPagamento : pagamento_rejeitar(motivo)
    \/ \E motivo \in MotivosPagamento : pagamento_cancelar(motivo)
    \/ Tick

SpecPagamento == InitPagamento /\ [][NextPagamento]_vars

\* ------------------------------------------------------------- properties
\* the step is the response res of worker w to a request of kind op
RespondeCom(w, op, res) ==
    /\ proc[w].op = op
    /\ resposta'.worker = w
    /\ resposta'.result = res

\* the step is a step of a request of kind op at worker w
PassoDe(w, op) ==
    /\ proc'[w] # proc[w]
    /\ proc[w].op = op \/ proc'[w].op = op

Aberto(b) == boletos[b].status \in {"ativo", "vencido"}

ReferenciaNegociada(d, b) ==
    dividas[d].status = "negociado" /\ dividas[d].boleto_id = Algum(b)

\* C1: no two instruments in status active reference the same debt, whatever
\* the interleaving of the negotiate calls (only one of two calls on a
\* shared debt succeeds).
C1_UmBoletoAtivoPorDivida ==
    \A b1, b2 \in DOMAIN boletos :
        (b1 # b2 /\ boletos[b1].status = "ativo" /\ boletos[b2].status = "ativo")
            => Range(boletos[b1].dividas_ids) \cap Range(boletos[b2].dividas_ids) = {}

\* C2: a negotiate call that fails with a persistence error has written
\* nothing: no instrument of the call is in the store and no debt was changed.
C2_GerarTudoOuNada ==
    [][\A w \in Workers :
          RespondeCom(w, "gerar", "500") =>
              /\ ~escreveu[w]
              /\ proc[w].boleto_id = Nenhum]_vars

\* C3: a cancel call that fails with a persistence error has written nothing,
\* and leaves no instrument canceled while a debt still references it as
\* negotiated.
C3_CancelarTudoOuNada ==
    [][\A w \in Workers :
          RespondeCom(w, "cancelar", "500") =>
              /\ ~escreveu[w]
              /\ ~ (/\ boletos'[proc[w].boleto_id[1]].status = "cancelado"
                    /\ \E d \in IdsDividas :
                          /\ dividas'[d].status = "negociado"
                          /\ dividas'[d].boleto_id = proc[w].boleto_id)]_vars

ClassificaDias(dias) ==
    IF dias <= 0 THEN "ativo"
    ELSE IF dias <= 30 THEN "vencido"
    ELSE "inadimplente"

DiasInteiros(dv, agora) ==
    CHOOSE n \in -100..100 :
        n * TicksPerDay <= agora - dv /\ agora - dv < (n + 1) * TicksPerDay

\* C5: when cancel succeeds the instrument is canceled with canceledAt and
\* canceledBy set, no debt references it any more, every debt that referenced
\* it has no instrumentId and the status of its due date at a time of the
\* call, the restored ids returned are those debts, and the call changes no
\* other debt and no other instrument.
C5_CancelarPosCondicao ==
    [][\A w \in Workers :
          /\ (proc[w].pc = "busca" /\ proc'[w].pc = "boleto") =>
                Range(proc'[w].associadas) =
                    {d \in IdsDividas : dividas[d].boleto_id = proc[w].boleto_id}
          /\ RespondeCom(w, "cancelar", "ok") =>
                LET b == proc[w].boleto_id[1] IN
                /\ boletos'[b].status = "cancelado"
                /\ boletos'[b].data_cancelamento # Nenhum
                /\ boletos'[b].cancelado_por = Algum(proc[w].usuario)
                /\ \A d \in IdsDividas : dividas'[d].boleto_id # Algum(b)
                /\ proc[w].associadas # <<>>
                /\ proc[w].restauradas = proc[w].associadas
                /\ Range(proc[w].associadas) = Range(boletos'[b].dividas_ids)
                /\ \A d \in Range(proc[w].associadas) :
                      /\ dividas'[d].boleto_id = Nenhum
                      /\ \E t \in proc[w].data_cancelamento..now' :
                            dividas'[d].status =
                                ClassificaDias(DiasInteiros(dividas'[d].data_vencimento[1], t))
          /\ PassoDe(w, "cancelar") =>
                /\ DOMAIN boletos' = DOMAIN boletos
                /\ \A b \in DOMAIN boletos :
                      Algum(b) # proc[w].boleto_id => boletos'[b] = boletos[b]
                /\ \A d \in IdsDividas \ Range(proc[w].associadas) :
                      dividas'[d] = dividas[d]]_vars

C5_Witness ==
    /\ resposta.op = "cancelar"
    /\ resposta.result = "ok"
    /\ \E b \in DOMAIN boletos :
          /\ boletos[b].status = "cancelado"
          /\ boletos[b].dividas_ids = <<"d1", "d2">>
          /\ boletos[b].cancelado_por = Algum("ana")
          /\ \A d \in {"d1", "d2"} :
                dividas[d].boleto_id = Nenhum /\ dividas[d].status # "negociado"
          /\ Len(auditoria) = 1

\* C6: the status a debt is restored to on cancellation is that of the whole
\* days elapsed from its due date to now: active up to 0, overdue from 1 to
\* 30, defaulted above 30, whatever status the debt held before.
C6_StatusRestaurado ==
    [][\A w \in Workers :
          (proc[w].pc = "divida" /\ proc'[w].i = proc[w].i + 1) =>
              LET d == proc[w].associadas[proc[w].i]
                  dias == DiasInteiros(dividas[d].data_vencimento[1], now)
              IN  dividas'[d].status = ClassificaDias(dias)]_vars

\* at the last tick d1 is restored defaulted, 31 days after its due date, and
\* d2 overdue, 1 day after its due date
C6_Witness ==
    /\ now = MaxNow
    /\ resposta.op = "cancelar"
    /\ resposta.result = "ok"
    /\ dividas["d1"].status = "inadimplente"
    /\ dividas["d2"].status = "vencido"
    /\ \E b \in DOMAIN boletos :
          /\ boletos[b].status = "cancelado"
          /\ boletos[b].data_cancelamento = Algum(MaxNow)
          /\ boletos[b].dividas_ids = <<"d1", "d2">>

\* C7: a debt has an instrumentId exactly when its status is negotiated, in
\* every state of every interleaving of negotiate and cancel calls.
C7_BoletoIdSseNegociado ==
    \A d \in IdsDividas :
        dividas[d].boleto_id # Nenhum <=> dividas[d].status = "negociado"

\* one debt negotiated, one restored by a cancellation still under way
C7_Witness ==
    \E w \in Workers :
        /\ proc[w].pc = "divida"
        /\ proc[w].i = 2
        /\ dividas["d1"].boleto_id = Nenhum
        /\ dividas["d1"].status # "negociado"
        /\ dividas["d2"].boleto_id # Nenhum

ErrosDeValidacao ==
    {"400_parcelas", "400_sem_dividas", "400_cpf", "404_cliente", "400_ids",
     "404_dividas", "400_nao_negociavel", "400_parcela_minima"}

\* C8: a negotiate call refused with a validation or business-rule error has
\* written nothing: the instruments and the debts are as they were.
C8_RecusaNaoEscreve ==
    [][\A w \in Workers :
          (resposta'.worker = w /\ resposta'.op = "gerar"
              /\ resposta'.result \in ErrosDeValidacao) =>
                  /\ ~escreveu[w]
                  /\ boletos' = boletos
                  /\ dividas' = dividas]_vars

\* the refusal for the installment floor, with debts negotiated before it
C8_Witness ==
    /\ resposta.op = "gerar"
    /\ resposta.result = "400_parcela_minima"
    /\ \E b \in DOMAIN boletos : boletos[b].dividas_ids # <<>>

\* C9: negotiate does not succeed while another instrument in status active or
\* overdue lists one of the requested debts.
C9_RecusaDividaComBoletoAberto ==
    [][\A w \in Workers :
          RespondeCom(w, "gerar", "ok") =>
              ~ \E b \in DOMAIN boletos :
                    /\ Algum(b) # proc[w].boleto_id
                    /\ Aberto(b)
                    /\ Range(boletos[b].dividas_ids) \cap Range(proc[w].ids) # {}]_vars

\* totalAmount / installmentCount rounded half up to the cent
ArredondaMeioAcima(valor_total, parcelas) ==
    (2 * valor_total + parcelas) \div (2 * parcelas)

\* the step is the end of the loop over the debts of a request for d1
DecideParcela(w) ==
    /\ proc[w].op = "gerar"
    /\ proc[w].pc = "verifica"
    /\ proc[w].ids = <<"d1">>
    /\ proc'[w] # proc[w]

\* C10 as stated: negotiate fails InstallmentTooSmall exactly when the
\* installment rounded half up to the cent is below the floor.
C10_PisoArredondado ==
    [][\A w \in Workers :
          DecideParcela(w) =>
              (resposta'.result = "400_parcela_minima" <=>
                  ArredondaMeioAcima(ValorDivida(dividas["d1"]), proc[w].parcelas)
                      < ParcelaMinima)]_vars

\* C10 amended: negotiate fails InstallmentTooSmall exactly when the
\* unrounded quotient totalAmount / installmentCount is below the floor, and
\* the failure reports floor(totalAmount / floor).
C10_PisoSemArredondar ==
    [][\A w \in Workers :
          DecideParcela(w) =>
              LET total == ValorDivida(dividas["d1"])
                  maximo == CHOOSE n \in 0..MaxParcelas :
                                n * ParcelaMinima <= total
                                /\ total < (n + 1) * ParcelaMinima
              IN  /\ resposta'.result = "400_parcela_minima" <=>
                        total < ParcelaMinima * proc[w].parcelas
                  /\ resposta'.result = "400_parcela_minima" =>
                        resposta'.max_parcelas = maximo]_vars

\* total 249.98 in 5 installments: 49.996 each, 50.00 once rounded, refused
\* with a maximum of 4
C10_Witness ==
    /\ resposta.result = "400_parcela_minima"
    /\ resposta.max_parcelas = 4
    /\ dividas["d1"].valor_atual = Algum(5 * ParcelaMinima - 2)

\* the instruments gerar_boleto has inserted (the seeded ones list no debts)
Gerados == {b \in DOMAIN boletos : boletos[b].dividas_ids # <<>>}

\* C11: for every instrument persisted by negotiate, the stored installment
\* times the installment count is within one cent of the total.
C11_ParcelasReconciliam ==
    \A b \in Gerados :
        LET diferenca == boletos[b].valor_parcela * boletos[b].parcelas
                             - boletos[b].valor_total
        IN  -1 <= diferenca /\ diferenca <= 1

\* the step is the first step of a cancel call of worker w
InicioDeCancelar(w) ==
    /\ Livre(w)
    /\ \/ proc'[w].op = "cancelar"
       \/ resposta'.worker = w /\ resposta'.op = "cancelar"

\* the boleto id the cancel call starting at this step carries
AlvoDeCancelar(w) ==
    IF proc'[w].op = "cancelar" THEN proc'[w].boleto_id ELSE resposta'.boleto_id

C13_SemDividasAssociadas ==
    [][\A w \in Workers :
          /\ (proc[w].pc = "busca" /\ proc'[w] # proc[w]
                 /\ ~ \E d \in IdsDividas : dividas[d].boleto_id = proc[w].boleto_id) =>
                /\ resposta'.worker = w
                /\ resposta'.result \in {"404_sem_dividas", "500"}
          /\ RespondeCom(w, "cancelar", "404_sem_dividas") =>
                /\ ~ \E d \in IdsDividas : dividas[d].boleto_id = proc[w].boleto_id
                /\ ~escreveu[w]
                /\ UNCHANGED <<boletos, dividas, auditoria>>
                /\ boletos'[proc[w].boleto_id[1]].status \notin {"pago", "cancelado"}]_vars

\* the failure for the seeded overdue boleto, which lists no debt
C13_Witness ==
    /\ resposta.op = "cancelar"
    /\ resposta.result = "404_sem_dividas"
    /\ resposta.boleto_id = Algum(0)
    /\ boletos[0].status = "vencido"
    /\ auditoria = <<>>

\* C14: a failure of the audit append, after the instrument and the debts
\* were written, does not fail the cancel call: no error response comes
\* from the audit step.
C14_AuditoriaNaoFalhaCancelar ==
    [][\A w \in Workers :
          (proc[w].pc = "auditoria" /\ resposta'.worker = w) =>
              resposta'.result = "ok"]_vars

\* the step of worker w is the one that runs the cache invalidation
PassoDeCache(w) ==
    /\ resposta'.worker = w
    /\ \/ proc[w].pc = "uc_cache"
       \/ proc[w].pc \in {"update", "auditoria"} /\ resposta'.aviso_cache

\* C15: a cache delete that fails after the store writes of negotiate or
\* cancel is not propagated, in the handlers and in the use case classes:
\* the step that invalidates the cache always answers success.
C15_FalhaDeCacheNaoPropaga ==
    [][\A w \in Workers :
          PassoDeCache(w) => resposta'.result = "ok"]_vars

\* the active instruments that list one of the debts ids
AtivosSobre(ids) ==
    {b \in DOMAIN boletos :
        /\ boletos[b].status = "ativo"
        /\ Range(boletos[b].dividas_ids) \cap Range(ids) # {}}

\* C16: a negotiate call repeated after a persistence error succeeds with
\* exactly one active instrument on the requested debts: the failed attempt
\* has left none behind.
C16_RepeticaoSemDuplicata ==
    [][\A w \in Workers :
          RespondeCom(w, "gerar", "ok") =>
              /\ boletos' = boletos
              /\ AtivosSobre(proc[w].ids) = {proc[w].boleto_id[1]}]_vars

\* C17: a debt that is settled or canceled keeps its status through every
\* step of every negotiate and cancel call, and a negotiate call that
\* requests it is refused DebtNotNegotiable (unless a lookup fails) and
\* never reaches its writes.
C17_DividaTerminal ==
    [][/\ \A d \in IdsDividas :
            dividas[d].status \in StatusTerminais => dividas'[d] = dividas[d]
       /\ \A w \in Workers :
            (proc[w].op = "gerar"
                /\ \E k \in 1..Len(proc[w].dividas) :
                      proc[w].dividas[k].status \in StatusTerminais) =>
                /\ proc'[w].pc \in {"verifica", "idle"}
                /\ resposta'.worker = w =>
                      resposta'.result \in {"400_nao_negociavel", "500"}]_vars

\* the canceled debt refused, after a negotiation and its cancellation
C17_Witness ==
    /\ resposta.op = "gerar"
    /\ resposta.result = "400_nao_negociavel"
    /\ dividas["d3"].status = "cancelado"
    /\ Len(auditoria) = 1

\* C18: no two instruments persisted by negotiate share their identifier
\* line.
C18_LinhaUnica ==
    \A b1, b2 \in Gerados :
        b1 # b2 => boletos[b1].linha_digitavel # boletos[b2].linha_digitavel

\* num / den of the currency unit (num >= 0, den > 0) in cents, rounded half
\* up: the n with n - 1/2 <= 100 * num / den < n + 1/2
MeioAcima(num, den) ==
    CHOOSE n \in 0..(100 * (num \div den) + 100) :
        (2 * n - 1) * den <= 200 * num /\ 200 * num < (2 * n + 1) * den

\* the exact result of the call recorded, as a fraction <<num, den>> of the
\* currency unit with den > 0
ResultadoExato ==
    LET a == money.a[1].valor
        e == money.entrada
    IN  IF money.op = "criar" THEN <<e, 1000>>
        ELSE IF money.op = "somar" THEN <<a + money.b[1].valor, 100>>
        ELSE IF money.op = "subtrair" THEN <<a - money.b[1].valor, 100>>
        ELSE IF money.op = "multiplicar" THEN <<a * e, 100 * 1000>>
        ELSE IF money.op = "dividir" THEN <<a * 1000 * (IF e < 0 THEN 0 - 1 ELSE 1),
                                            100 * Abs(e)>>
        ELSE IF money.op = "porcentagem" THEN <<a * e, 100 * 1000 * 100>>
        ELSE <<e, 100>>

C20_SomaArredondada ==
    (money.op = "somar" /\ money.a[1].moeda = money.b[1].moeda) =>
        /\ money.r # Nenhum
        /\ money.r[1].valor = MeioAcima(money.bruto_a + money.bruto_b, 1000)

\* C20 amended: Money(a, c).somar(Money(b, d)) is the sum of a and b each
\* rounded half up to the cent when c = d, which is a + b rounded when a and
\* b have at most two fractional digits, and raises when c # d.
C20_SomaDosArredondados ==
    money.op = "somar" =>
        IF money.a[1].moeda = money.b[1].moeda
        THEN /\ money.r = Algum([valor |-> MeioAcima(money.bruto_a, 1000)
                                             + MeioAcima(money.bruto_b, 1000),
                                 moeda |-> money.a[1].moeda])
             /\ (money.bruto_a % 10 = 0 /\ money.bruto_b % 10 = 0) =>
                   money.r[1].valor =
                       MeioAcima(money.bruto_a + money.bruto_b, 1000)
        ELSE money.r = Nenhum

\* 0.005 + 0.005: each is rounded to 0.01 and the sum is 0.02, not 0.01
C20_Witness ==
    /\ money.op = "somar"
    /\ money.bruto_a = 5
    /\ money.bruto_b = 5
    /\ money.r = Algum([valor |-> 2, moeda |-> "USD"])

\* the call recorded is one of the cases in which Money raises
CasoDeFalha ==
    IF money.op \in {"criar", "from_centavos"} THEN money.entrada < 0
    ELSE IF money.op = "somar" THEN money.a[1].moeda # money.b[1].moeda
    ELSE IF money.op = "subtrair"
         THEN \/ money.a[1].moeda # money.b[1].moeda
              \/ money.a[1].valor < money.b[1].valor
    ELSE IF money.op = "dividir" THEN money.entrada = 0
    ELSE FALSE

DigitosDoTexto == SelectSeq(validacao.valor, DigitoAscii)

RECURSIVE SomaComPesos(_, _, _)
SomaComPesos(ds, k, n) ==
    IF k > n THEN 0 ELSE ds[k] * (n + 2 - k) + SomaComPesos(ds, k + 1, n)

DigitoVerificador(ds, n) ==
    LET soma == SomaComPesos(ds, 1, n)
    IN  IF soma % 11 < 2 THEN 0 ELSE 11 - (soma % 11)

\* C22: the construction of a CPF from a text whose digits are ASCII digits
\* succeeds exactly when the text has 11 digits, not all equal, the 10th the
\* check digit of the first 9 and the 11th the check digit of the first 10;
\* a text with any other number of digits is rejected
C22_CPFValido ==
    (validacao.criado # Nenhum /\ normalize_cpf(validacao.valor) = DigitosDoTexto)
    => LET ds == DigitosDoTexto
       IN  validacao.criado[1] <=>
              /\ Len(ds) = 11
              /\ \E k \in 1..11 : ds[k] # ds[1]
              /\ ds[10] = DigitoVerificador(ds, 9)
              /\ ds[11] = DigitoVerificador(ds, 10)

\* a CPF built from a text whose first sum is 1 modulo 11
C22_Witness ==
    /\ validacao.valor = <<8,6,8,8,6,9,9,4,7,0,0>>
    /\ validacao.criado = Algum(TRUE)

\* C28: validate_cpf of main.py returns True exactly when the construction
\* of a CPF from the same text succeeds
C28_ValidadoresConcordam ==
    (validacao.validate_cpf # Nenhum /\ validacao.criado # Nenhum)
    => validacao.validate_cpf[1] = validacao.criado[1]

\* what a debt is owed for: its current amount, its original amount when it
\* has no current amount
ValorDevido(d) ==
    IF dividas[d].valor_atual = Nenhum THEN dividas[d].valor_original
    ELSE dividas[d].valor_atual[1]

RECURSIVE SomaDevida(_)
SomaDevida(ids) ==
    IF ids = <<>> THEN 0 ELSE ValorDevido(Head(ids)) + SomaDevida(Tail(ids))

\* C23: the total of every instrument created by negotiate is the sum, over
\* the requested debts, of the current amount of each, the original amount
\* standing in for a debt without a current amount
C23_TotalSomaDasDividas ==
    \A b \in Gerados : boletos[b].valor_total = SomaDevida(boletos[b].dividas_ids)

\* an instrument over a debt with a current amount and one without
C23_Witness ==
    \E b \in Gerados :
        /\ boletos[b].dividas_ids = <<"d1", "d2">>
        /\ dividas["d1"].valor_atual = Nenhum
        /\ dividas["d2"].valor_atual # Nenhum
        /\ boletos[b].valor_total = 9000 + 4999

\* C24: CancelarBoletoUseCase.execute returns None when the boleto is not
\* found and raises ValueError when the id is empty or the boleto is canceled
\* or paid, in both cases without a save; otherwise it goes on to the save,
\* which it calls once, and the record saved is canceled with its
\* data_cancelamento set.  No other step of the call writes a boleto.
C24_CancelarCasoDeUso ==
    [][\A w \in Workers :
          /\ \A b \in AlvosCasoDeUso, m \in Motivos :
                cancelar_execute_busca(w, b, m) =>
                   LET achado == b # Nenhum /\ b[1] \in DOMAIN boletos
                       terminal == achado /\ boletos[b[1]].status \in StatusTerminais
                   IN  /\ boletos' = boletos
                       /\ (b # Nenhum /\ ~achado)
                             => (resposta'.result = "None" /\ Livre(w)')
                       /\ (b = Nenhum \/ terminal)
                             => (resposta'.result = "ValueError" /\ Livre(w)')
                       /\ (achado /\ ~terminal) => proc'[w].pc = "uc_salvar"
          /\ (proc[w].op = "uc_cancelar" /\ proc'[w] # proc[w]) =>
                IF proc[w].pc = "uc_salvar"
                THEN /\ proc'[w].pc \in {"uc_cache", "idle"}
                     /\ \/ boletos' = boletos /\ resposta'.result = "Exception"
                        \/ LET b == proc[w].boleto_id[1]
                           IN  /\ boletos'[b].status = "cancelado"
                               /\ boletos'[b].data_cancelamento # Nenhum
                               /\ \A c \in DOMAIN boletos \ {b} :
                                     boletos'[c] = boletos[c]
                ELSE /\ boletos' = boletos
                     /\ proc'[w].pc = "idle"]_vars

\* the use case has canceled the seeded boleto and returned
C24_Witness ==
    /\ resposta.op = "uc_cancelar"
    /\ resposta.result = "ok"
    /\ boletos[0].status = "cancelado"
    /\ boletos[0].data_cancelamento # Nenhum

\* the request names a customer and only debts of that customer
PedidoEncontravel(r) ==
    /\ r.cliente_cpf \in DOMAIN clientes
    /\ \A k \in 1..Len(r.dividas_ids) :
          /\ r.dividas_ids[k] \in DOMAIN dividas
          /\ dividas[r.dividas_ids[k]].cliente_id = clientes[r.cliente_cpf]

\* C25: negotiate fails NotFound only when the customer does not exist or a
\* requested id names no debt of that customer, and a request that passed
\* the validations and names no such customer or debt does fail NotFound; a
\* list of existing debts of the customer is never refused as NotFound, even
\* when it repeats an id.
C25_NaoEncontrado ==
    [][\A w \in Workers, r \in PedidosTodos :
          gerar_boleto_inicio(w, r.cliente_cpf, r.dividas_ids, r.parcelas) =>
             /\ resposta'.result \in {"404_cliente", "404_dividas"}
                   => ~PedidoEncontravel(r)
             /\ (~PedidoEncontravel(r) /\ resposta'.result \notin
                      {"400_parcelas", "400_sem_dividas", "400_cpf", "400_ids"})
                   => resposta'.result \in {"404_cliente", "404_dividas"}]_vars

\* C26: whenever no call is under way, every active instrument created by
\* negotiate is referenced by each debt it lists: the debt is negotiated and
\* its boleto_id is that instrument (so that a cancel of the instrument finds
\* its debts).
C26_AtivoReferenciado ==
    (\A w \in Workers : Livre(w)) =>
        \A b \in Gerados :
            boletos[b].status = "ativo" =>
                \A d \in Range(boletos[b].dividas_ids) : ReferenciaNegociada(d, b)

\* the audit records of the cancellation of boleto b
RegistrosDe(b) == {k \in 1..Len(auditoria) : auditoria[k].boleto_id = b}

\* C27: of the cancel calls on one instrument, concurrent or not, at most
\* one succeeds: the audit log, which every successful cancel appends to,
\* holds at most one record for the instrument.
C27_UmCancelamentoPorBoleto ==
    \A b \in DOMAIN boletos : Cardinality(RegistrosDe(b)) <= 1

\* the cpfs of the customer with the id given
CpfsDe(cliente_id) == {c \in DOMAIN clientes : clientes[c] = cliente_id}

\* C29: when GerarBoletoUseCase.execute or CancelarBoletoUseCase.execute
\* returns, the cache holds no entry under cliente:cpf:<cpf> for the customer
\* of the boleto.
C29_CacheDoClienteInvalidado ==
    [][\A w \in Workers :
          /\ RespondeCom(w, "uc_cancelar", "ok") =>
                \A c \in CpfsDe(proc[w].boleto[1].cliente_id) :
                    ChaveClienteCpf(c) \notin cache'
          /\ RespondeCom(w, "uc_gerar", "ok") =>
                \A c \in CpfsDe(proc[w].cliente) :
                    ChaveClienteCpf(c) \notin cache']_vars

\* C30: once a Pagamento is aprovado, no call of aprovar, rejeitar or
\* cancelar brings it to cancelado; a cancelar that raises leaves status and
\* observacoes as they were.
C30_AprovadoNuncaCancelado ==
    [][/\ pagamento'.foi_aprovado => pagamento'.status # "cancelado"
       /\ (pagamento'.op = "cancelar" /\ pagamento'.raised) =>
             /\ pagamento'.status = pagamento.status
             /\ pagamento'.observacoes = pagamento.observacoes]_vars
====
